---- MODULE Spec2Model ----
(***************************************************************************)
(* Model of backend/app.py of Bryces-Blender: the in-memory tank list and  *)
(* its endpoints, the blend planner (generate_blend_plan) with the helpers *)
(* it calls, and direct calls of the helpers.                              *)
(*                                                                         *)
(* Python floats are modelled as exact rationals <<n, d>> (d > 0, lowest   *)
(* terms), so the code's epsilon comparisons (1e-3, 1e-6) and the 2-point  *)
(* tolerance are evaluated exactly.  Python strings are sequences of       *)
(* one-character strings, dicts are functions (with an explicit key order  *)
(* where the code iterates a dict), lists are sequences.                   *)
(***************************************************************************)
EXTENDS Integers, Sequences, FiniteSets, TLC

\* ------------------------------------------------------------------------
\* Bounds of the model
\* ------------------------------------------------------------------------
MaxTanks == 3

\* ------------------------------------------------------------------------
\* Exact arithmetic
\* ------------------------------------------------------------------------
Abs(n) == IF n < 0 THEN -n ELSE n

RECURSIVE GCD(_, _)
GCD(a, b) == IF b = 0 THEN a ELSE GCD(b, a % b)

Rat(n, d) ==
    LET g == GCD(Abs(n), Abs(d))
        s == IF d < 0 THEN -1 ELSE 1
    IN  <<(s * n) \div g, (s * d) \div g>>

R(n) == <<n, 1>>
R0 == <<0, 1>>
\* sums over the least common denominator, g the gcd of the denominators
RAddOver(a, b, g) ==
    Rat(a[1] * (b[2] \div g) + b[1] * (a[2] \div g), (a[2] \div g) * b[2])
RAdd(a, b) == RAddOver(a, b, GCD(a[2], b[2]))
RSub(a, b) == RAddOver(a, <<-b[1], b[2]>>, GCD(a[2], b[2]))
\* products with the common factors g of a[1], b[2] and h of b[1], a[2] taken out
RMulOver(a, b, g, h) ==
    Rat((a[1] \div g) * (b[1] \div h), (a[2] \div h) * (b[2] \div g))
RMul(a, b) ==
    IF a[1] = 0 \/ b[1] = 0 THEN <<0, 1>>
    ELSE RMulOver(a, b, GCD(Abs(a[1]), Abs(b[2])), GCD(Abs(b[1]), Abs(a[2])))
RDiv(a, b) == RMul(a, <<b[2], b[1]>>)
RLt(a, b) == a[1] * b[2] < b[1] * a[2]
RLe(a, b) == a[1] * b[2] <= b[1] * a[2]
RMin(a, b) == IF RLt(b, a) THEN b ELSE a
RAbs(a) == <<Abs(a[1]), a[2]>>
RHalf(a) == Rat(a[1], 2 * a[2])

\* a <= 1/e for a positive integer e, without forming n * e
RLeInv(a, e) == a[1] <= 0 \/ (a[2] \div a[1]) >= e

\* sum of the values of a dict
RECURSIVE DictSum(_)
DictSum(d) ==
    IF DOMAIN d = {} THEN R0
    ELSE LET k == CHOOSE x \in DOMAIN d : TRUE
         IN  RAdd(d[k], DictSum([x \in DOMAIN d \ {k} |-> d[x]]))

DictGet(d, k) == IF k \in DOMAIN d THEN d[k] ELSE R0
EmptyDict == [k \in {} |-> R0]

\* list.sort / sorted with a key, largest key first, stable (key=-value)
SortDesc(s, key(_)) ==
    LET n == Len(s)
        rank(i) == 1 + Cardinality({j \in 1..n :
                        \/ RLt(key(s[i]), key(s[j]))
                        \/ (key(s[j]) = key(s[i]) /\ j < i)})
    IN  [p \in 1..n |-> s[CHOOSE i \in 1..n : rank(i) = p]]

\* [x for x in s if test(x)]
Filter(s, test(_)) == SelectSeq(s, test)

\* ------------------------------------------------------------------------
\* Strings
\* ------------------------------------------------------------------------
Whitespace == {" ", "\t", "\n"}

LowerChar(c) ==
    CASE c = "A" -> "a" [] c = "B" -> "b" [] c = "C" -> "c" [] c = "D" -> "d"
      [] c = "E" -> "e" [] c = "M" -> "m" [] c = "U" -> "u" [] c = "X" -> "x"
      [] c = "Y" -> "y" [] OTHER -> c

Lower(s) == [i \in 1..Len(s) |-> LowerChar(s[i])]

RECURSIVE Strip(_)
Strip(s) ==
    IF s = <<>> THEN s
    ELSE IF Head(s) \in Whitespace THEN Strip(Tail(s))
    ELSE IF s[Len(s)] \in Whitespace THEN Strip(SubSeq(s, 1, Len(s) - 1))
    ELSE s

normalize_blend(blend) == IF blend # <<>> THEN Strip(Lower(blend)) ELSE <<>>

\* ------------------------------------------------------------------------
\* Tanks
\* ------------------------------------------------------------------------
\* a record of the global list: no blend_breakdown key
Tank(name, blend, is_empty, vol, cap) ==
    [name |-> name, blend |-> blend, is_empty |-> is_empty,
     current_volume |-> vol, capacity |-> cap]

HasBreakdown(t) == "blend_breakdown" \in DOMAIN t
Breakdown(t) == IF HasBreakdown(t) THEN t.blend_breakdown ELSE EmptyDict

WithBreakdown(t, bd) ==
    [name |-> t.name, blend |-> t.blend, is_empty |-> t.is_empty,
     current_volume |-> t.current_volume, capacity |-> t.capacity,
     blend_breakdown |-> bd]

WithVolume(t, vol) ==
    IF HasBreakdown(t)
    THEN [t EXCEPT !.current_volume = vol]
    ELSE Tank(t.name, t.blend, t.is_empty, vol, t.capacity)

initialize_blend_breakdown(ts) ==
    [i \in 1..Len(ts) |->
        IF HasBreakdown(ts[i]) /\ DOMAIN ts[i].blend_breakdown # {}
        THEN ts[i]
        ELSE IF ts[i].blend # <<>> /\ RLt(R0, ts[i].current_volume)
             THEN WithBreakdown(ts[i], [b \in {ts[i].blend} |-> ts[i].current_volume])
             ELSE WithBreakdown(ts[i], EmptyDict)]

\* lines 55-57: the donor's breakdown, made from its label when it has none
DonorBreakdown(donor) ==
    IF DOMAIN Breakdown(donor) # {} THEN Breakdown(donor)
    ELSE [b \in {donor.blend} |-> donor.current_volume]

\* lines 59-62: the share of every component that moves
TransferBreakdown(donor_breakdown, volume, donor_vol) ==
    [b \in DOMAIN donor_breakdown |->
        IF RLt(R0, donor_vol)
        THEN RMul(donor_breakdown[b], RDiv(volume, donor_vol))
        ELSE R0]

\* lines 65-66: recipient['blend_breakdown'][blend] += amt
DictPlus(d, t) ==
    [b \in DOMAIN d \cup DOMAIN t |->
        IF b \in DOMAIN t THEN RAdd(DictGet(d, b), t[b]) ELSE d[b]]

\* lines 69-70: donor['blend_breakdown'][blend] -= amt
DictMinus(d, t) ==
    [b \in DOMAIN d |-> IF b \in DOMAIN t THEN RSub(d[b], t[b]) ELSE d[b]]

\* line 71: components of at most 1e-3 are deleted
PruneSmall(d) == [b \in {x \in DOMAIN d : ~RLeInv(d[x], 1000)} |-> d[b]]

\* lines 64-74 with the breakdowns at hand.  When donor and recipient are one
\* dict (di = ri) and it had a breakdown, the subtraction acts on the dict that
\* was just added to.
TransferWith(ts, di, ri, volume, had, donor_breakdown, transfer_breakdown) ==
    IF di = ri
    THEN [ts EXCEPT ![di] =
            [WithBreakdown(ts[di],
                PruneSmall(IF had
                           THEN DictMinus(DictPlus(Breakdown(ts[ri]),
                                                   transfer_breakdown),
                                          transfer_breakdown)
                           ELSE DictMinus(donor_breakdown, transfer_breakdown)))
                EXCEPT !.current_volume = RAdd(ts[ri].current_volume, volume)]]
    ELSE [ts EXCEPT
            ![di] = [WithBreakdown(ts[di],
                        PruneSmall(DictMinus(donor_breakdown, transfer_breakdown)))
                        EXCEPT !.current_volume = RSub(ts[di].current_volume, volume)],
            ![ri] = [WithBreakdown(ts[ri],
                        DictPlus(Breakdown(ts[ri]), transfer_breakdown))
                        EXCEPT !.current_volume = RAdd(ts[ri].current_volume, volume)]]

TransferFrom(ts, di, ri, volume, donor_breakdown) ==
    TransferWith(ts, di, ri, volume, DOMAIN Breakdown(ts[di]) # {}, donor_breakdown,
                 TransferBreakdown(donor_breakdown, volume, ts[di].current_volume))

\* transfer_wine on the tanks at positions di (donor) and ri (recipient) of a
\* list; di = ri is the aliased call, where donor and recipient are one dict.
transfer_wine(ts, di, ri, volume) ==
    TransferFrom(ts, di, ri, volume, DonorBreakdown(ts[di]))

Tolerance == R(2)

\* lines 87-88: the share of one component of a tank, in percent
Share(breakdown, total, b) == RMul(RDiv(DictGet(breakdown, b), total), R(100))

SharesMatch(breakdown, total, pct, tolerance) ==
    \/ total = R0
    \/ /\ \A b \in DOMAIN pct :
            RLe(RAbs(RSub(Share(breakdown, total, b), pct[b])), tolerance)
       /\ \A b \in DOMAIN breakdown \ DOMAIN pct :
            RLe(Share(breakdown, total, b), tolerance)

\* one tank of blending_is_not_needed's loop: TRUE when it does not return False
TankMatches(t, pct, tolerance) ==
    SharesMatch(Breakdown(t), DictSum(Breakdown(t)), pct, tolerance)

AllMatch(tanks_with_wine, pct, tolerance) ==
    \/ Len(tanks_with_wine) = 1
    \/ \A i \in 1..Len(tanks_with_wine) :
            TankMatches(tanks_with_wine[i], pct, tolerance)

HasWine(t) == RLt(R0, t.current_volume)

blending_is_not_needed(working, pct, tolerance) ==
    AllMatch(Filter(working, HasWine), pct, tolerance)

get_tank_by_name(tank_list, name) ==
    IF \E i \in 1..Len(tank_list) : tank_list[i].name = name
    THEN CHOOSE i \in 1..Len(tank_list) :
            /\ tank_list[i].name = name
            /\ \A j \in 1..(i - 1) : tank_list[j].name # name
    ELSE 0

\* lines 120, 128, 140: a tank's breakdown scaled by num / den
ScaledBy(t, num, den) ==
    [k \in DOMAIN t.blend_breakdown |-> RMul(t.blend_breakdown[k], RDiv(num, den))]

\* the three moves of the cross-fill, computed from the tanks as they are
double_swap(tank_a, tank_b, tank_empty) ==
    << [from |-> tank_a.name, to |-> tank_empty.name,
        volume |-> RHalf(tank_a.current_volume),
        blend_breakdown |-> ScaledBy(tank_a, RHalf(tank_a.current_volume),
                                     tank_a.current_volume)],
       [from |-> tank_b.name, to |-> tank_empty.name,
        volume |-> RHalf(tank_b.current_volume),
        blend_breakdown |-> ScaledBy(tank_b, RHalf(tank_b.current_volume),
                                     tank_b.current_volume)],
       [from |-> tank_a.name, to |-> tank_b.name,
        volume |-> RSub(tank_a.current_volume, RHalf(tank_a.current_volume)),
        blend_breakdown |->
            ScaledBy(tank_a,
                     RSub(tank_a.current_volume, RHalf(tank_a.current_volume)),
                     tank_a.current_volume)] >>

\* lines 181-185: the move's breakdown, scaled when the amount was clamped
ScaledBreakdown(move, amount) ==
    IF amount # move.volume
    THEN [k \in DOMAIN move.blend_breakdown |->
            RMul(move.blend_breakdown[k], RDiv(amount, move.volume))]
    ELSE move.blend_breakdown

\* lines 189-193: the components taken out; one that falls to 0 or below is
\* deleted
TakenOut(d, bb) ==
    [k \in {x \in DOMAIN d \cup DOMAIN bb :
                x \notin DOMAIN bb \/ RLt(R0, RSub(DictGet(d, x), bb[x]))} |->
        IF k \in DOMAIN bb THEN RSub(DictGet(d, k), bb[k]) ELSE d[k]]

\* lines 196-198 for a destination that has a breakdown
ApplyTo(ts, ti, amount, bb) ==
    IF DOMAIN bb # {} /\ ~HasBreakdown(ts[ti])
    THEN [tanks |-> [ts EXCEPT ![ti] = WithVolume(@, RAdd(@.current_volume, amount))],
          error |-> "KeyError"]
    ELSE IF HasBreakdown(ts[ti])
         THEN [tanks |-> [ts EXCEPT ![ti] =
                            WithBreakdown(WithVolume(@, RAdd(@.current_volume, amount)),
                                          DictPlus(Breakdown(@), bb))],
               error |-> "none"]
         ELSE [tanks |-> [ts EXCEPT ![ti] = WithVolume(@, RAdd(@.current_volume, amount))],
               error |-> "none"]

\* lines 177-198
ApplyAmount(ts, fi, ti, amount, bb) ==
    IF RLe(amount, R0) THEN [tanks |-> ts, error |-> "none"]
    ELSE IF ~HasBreakdown(ts[fi])
         THEN IF DOMAIN bb # {}
              THEN [tanks |-> [ts EXCEPT ![fi] =
                                WithVolume(@, RSub(@.current_volume, amount))],
                    error |-> "KeyError"]
              ELSE ApplyTo([ts EXCEPT ![fi] =
                                WithVolume(@, RSub(@.current_volume, amount))],
                           ti, amount, bb)
         ELSE ApplyTo([ts EXCEPT ![fi] =
                        WithBreakdown(WithVolume(@, RSub(@.current_volume, amount)),
                                      TakenOut(Breakdown(@), bb))],
                      ti, amount, bb)

ApplyClamped(ts, move, fi, ti, amount) ==
    ApplyAmount(ts, fi, ti, amount, ScaledBreakdown(move, amount))

\* lines 170-175
ApplyBetween(ts, move, fi, ti) ==
    IF fi = 0 \/ ti = 0 THEN [tanks |-> ts, error |-> "StopIteration"]
    ELSE ApplyClamped(ts, move, fi, ti,
            RMin(RMin(move.volume, ts[fi].current_volume),
                 RSub(ts[ti].capacity, ts[ti].current_volume)))

\* apply_transfer: the list after the call and the exception it raised, if
\* any.  A tank without a blend_breakdown key raises KeyError at the first
\* component, after its current_volume was already reduced.
apply_transfer(ts, move) ==
    ApplyBetween(ts, move, get_tank_by_name(ts, move.from),
                 get_tank_by_name(ts, move.to))

\* lines 319-320
TotalRequired(target_tanks) ==
    DictSum([i \in 1..Len(target_tanks) |-> target_tanks[i].capacity])
TotalAvailable(source_tanks) ==
    DictSum([i \in 1..Len(source_tanks) |-> source_tanks[i].current_volume])

\* line 325
RequiredOf(target_ratios, blend, total_required) ==
    RMul(RDiv(target_ratios[blend], R(100)), total_required)

\* lines 326-327
AvailableOf(source_tanks, blend) ==
    DictSum([i \in {j \in 1..Len(source_tanks) :
                    normalize_blend(source_tanks[j].blend) = blend}
                |-> source_tanks[i].current_volume])

\* can_make_blend with the epsilon of line 328 left out
can_make_blend_no_epsilon(target_ratios, source_tanks, target_tanks) ==
    IF RLt(TotalAvailable(source_tanks), TotalRequired(target_tanks)) THEN FALSE
    ELSE IF \E blend \in DOMAIN target_ratios :
                RLt(AvailableOf(source_tanks, blend),
                    RequiredOf(target_ratios, blend, TotalRequired(target_tanks)))
         THEN FALSE
    ELSE TRUE

\* can_make_blend: target_ratios is a dict blend -> percentage
can_make_blend(target_ratios, source_tanks, target_tanks) ==
    IF RLt(TotalAvailable(source_tanks), TotalRequired(target_tanks)) THEN FALSE
    ELSE IF \E blend \in DOMAIN target_ratios :
                ~RLeInv(RSub(RequiredOf(target_ratios, blend,
                                        TotalRequired(target_tanks)),
                             AvailableOf(source_tanks, blend)), 1000)
         THEN FALSE
    ELSE TRUE

\* ------------------------------------------------------------------------
\* State
\* ------------------------------------------------------------------------
VARIABLES
    tanks,                        \* the global list
    tanks_before,                 \* the global list when the request arrived
    pc,                           \* position of the plan request
    blend_totals,                 \* [keys, tot]: the dict in insertion order
    total_wine,
    blend_percentages,
    working_tanks,
    consolidation_transfer_plan,
    performed_consolidation,
    full_tanks,
    empty_tanks,
    attempt,                      \* trials started so far
    best_plan,                    \* [none, ops]
    best_num_tanks,               \* [inf, n]
    best_num_transfers,           \* [inf, n]
    response,                     \* what the request returned
    final_tanks,                  \* the working copy behind the returned plan
    within_capacity,              \* no transfer so far left a tank out of 0..capacity
    accepted,                     \* the trials the tolerance check accepted
    call                          \* a direct call of a helper: arguments and result

plan_vars == <<tanks, tanks_before, pc, blend_totals, total_wine, blend_percentages, working_tanks,
          consolidation_transfer_plan, performed_consolidation, full_tanks,
          empty_tanks, attempt, best_plan, best_num_tanks, best_num_transfers,
          response, final_tanks, within_capacity, accepted>>

vars == <<plan_vars, call>>

\* ------------------------------------------------------------------------
\* Tank lists the store can hold when a plan is requested
\* ------------------------------------------------------------------------
NamePool == << <<"A">>, <<"B">>, <<"C">>, <<"D">>, <<"E">> >>
Blends == { <<"x">>, <<"y">>, <<>> }
EmptyCapacities == { 50, 200 }

\* a tank with wine that is not flagged empty; a tank flagged empty that still
\* holds wine under an old label; a tank without wine
TankKinds ==
    { [blend |-> b, is_empty |-> FALSE, current_volume |-> R(100), capacity |-> R(100)]
        : b \in Blends }
    \cup
    { [blend |-> <<"y">>, is_empty |-> TRUE, current_volume |-> R(vc[1]),
       capacity |-> R(vc[2])] : vc \in { <<10, 20>>, <<100, 100>> } }
    \cup
    { [blend |-> <<>>, is_empty |-> TRUE, current_volume |-> R0, capacity |-> R(c)]
        : c \in EmptyCapacities }

TankLists ==
    UNION { { [i \in 1..n |->
                Tank(NamePool[i], k[i].blend, k[i].is_empty,
                     k[i].current_volume, k[i].capacity)]
                : k \in [1..n -> TankKinds] }
            : n \in 0..MaxTanks }

NoPlan == [none |-> TRUE, ops |-> <<>>]
Infinity == [inf |-> TRUE, n |-> 0]
Finite(n) == [inf |-> FALSE, n |-> n]
NoResponse == [status |-> 0, message |-> "", has_plan |-> FALSE, transfer_plan |-> <<>>]

NoCall == [fn |-> "none"]

\* the locals of a plan request before its first step
RequestStarts ==
    /\ tanks_before = tanks
    /\ blend_totals = [keys |-> <<>>, tot |-> EmptyDict]
    /\ total_wine = R0
    /\ blend_percentages = EmptyDict
    /\ working_tanks = <<>>
    /\ consolidation_transfer_plan = <<>>
    /\ performed_consolidation = FALSE
    /\ full_tanks = <<>>
    /\ empty_tanks = <<>>
    /\ attempt = 0
    /\ best_plan = NoPlan
    /\ best_num_tanks = Infinity
    /\ best_num_transfers = Infinity
    /\ response = NoResponse
    /\ final_tanks = <<>>
    /\ within_capacity = TRUE
    /\ accepted = {}

Init ==
    /\ tanks \in TankLists
    /\ pc = "start"
    /\ RequestStarts
    /\ call = NoCall

\* ------------------------------------------------------------------------
\* generate_blend_plan: global ratios and the consolidation step
\* ------------------------------------------------------------------------
IsEmptyTank(t) == t.is_empty \/ t.current_volume = R0
IsSourceTank(t) == ~t.is_empty /\ RLt(R0, t.current_volume)

WithinCapacity(ts) ==
    \A i \in 1..Len(ts) :
        RLe(R0, ts[i].current_volume) /\ RLe(ts[i].current_volume, ts[i].capacity)

\* lines 391-392: one labelled tank added to blend_totals
AddToTotals(acc, blend, gal) ==
    [keys |-> IF blend \in DOMAIN acc.tot THEN acc.keys ELSE Append(acc.keys, blend),
     tot |-> [b \in DOMAIN acc.tot \cup {blend} |->
                IF b = blend THEN RAdd(DictGet(acc.tot, b), gal) ELSE acc.tot[b]]]

\* the loop that fills blend_totals, from tank i on
RECURSIVE BlendTotals(_, _, _)
BlendTotals(ts, i, acc) ==
    IF i > Len(ts) THEN acc
    ELSE IF /\ ~ts[i].is_empty
            /\ RLt(R0, ts[i].current_volume)
            /\ normalize_blend(ts[i].blend) # <<>>
         THEN BlendTotals(ts, i + 1,
                AddToTotals(acc, normalize_blend(ts[i].blend), ts[i].current_volume))
         ELSE BlendTotals(ts, i + 1, acc)

Percentages(totals, total) ==
    [b \in DOMAIN totals.tot |-> RMul(RDiv(totals.tot[b], total), R(100))]

\* positions in ts of the tanks that satisfy test, in list order
Positions(ts, test(_)) == Filter([i \in 1..Len(ts) |-> i], LAMBDA i : test(ts[i]))

\* lines 420-426: the empty tanks taken in turn and how much each takes:
\* [entries, left] with entries a list of [tank, amount]
RECURSIVE TanksNeeded(_, _, _, _, _)
TanksNeeded(wt, empties, k, wine_left_tmp, acc) ==
    IF k > Len(empties) \/ RLe(wine_left_tmp, R0)
    THEN [entries |-> acc, left |-> wine_left_tmp]
    ELSE TanksNeeded(wt, empties, k + 1,
                     RSub(wine_left_tmp, RMin(wt[empties[k]].capacity, wine_left_tmp)),
                     Append(acc, [tank |-> empties[k],
                                  amount |-> RMin(wt[empties[k]].capacity,
                                                  wine_left_tmp)]))

EntriesIfEnough(needed) == IF RLe(needed.left, R0) THEN needed.entries ELSE <<>>

\* the empty tanks chosen to receive the wine; none when consolidation is
\* not performed
ConsolidationTanks(wt, empties, total) ==
    IF empties # <<>> /\ RLe(total, wt[empties[1]].capacity)
    THEN << [tank |-> empties[1], amount |-> total] >>
    ELSE IF empties # <<>>
         THEN EntriesIfEnough(TanksNeeded(wt, empties, 1, total, <<>>))
         ELSE <<>>

PerformedConsolidation(wt, empties, total) ==
    IF empties # <<>> /\ RLe(total, wt[empties[1]].capacity) THEN TRUE
    ELSE IF empties # <<>>
         THEN RLe(TanksNeeded(wt, empties, 1, total, <<>>).left, R0)
         ELSE FALSE

\* lines 458-468: one move of the consolidation recorded.
\* cs = [wt, plan, within, amt, failed]
Pulled(cs, src, ti, blend, move, moved) ==
    [cs EXCEPT !.wt = moved,
               !.plan = Append(@, [from |-> cs.wt[src].name,
                                   to |-> cs.wt[ti].name,
                                   blend |-> blend,
                                   volume |-> move,
                                   type |-> "consolidation"]),
               !.within = @ /\ WithinCapacity(moved),
               !.amt = RSub(@, move)]

RECURSIVE ConsolidatePull(_, _, _, _, _)
RECURSIVE PullNext(_, _, _, _, _)
RECURSIVE PullMove(_, _, _, _, _, _)

\* lines 469-470
PullNext(next, cands, k, ti, blend) ==
    IF RLeInv(next.amt, 1000000) THEN next
    ELSE ConsolidatePull(next, cands, k + 1, ti, blend)

\* lines 456-468
PullMove(cs, cands, k, ti, blend, move) ==
    IF RLe(move, R0) THEN ConsolidatePull(cs, cands, k + 1, ti, blend)
    ELSE PullNext(Pulled(cs, cands[k], ti, blend, move,
                         transfer_wine(cs.wt, cands[k], ti, move)),
                  cands, k, ti, blend)

\* lines 453-470: pull amt of one blend from the candidates, from the k-th on
ConsolidatePull(cs, cands, k, ti, blend) ==
    IF k > Len(cands) THEN cs
    ELSE PullMove(cs, cands, k, ti, blend,
                  RMin(DictGet(Breakdown(cs.wt[cands[k]]), blend), cs.amt))

\* line 452: the sources that hold the blend
SourceCandidates(wt, sources, blend) ==
    Filter(sources, LAMBDA si : RLt(R0, DictGet(Breakdown(wt[si]), blend)))

RECURSIVE ConsolidateBlends(_, _, _, _, _, _)
RECURSIVE BlendPulled(_, _, _, _, _, _)

\* lines 471-472
BlendPulled(pulled, ti, blend_fill, keys, j, sources) ==
    IF ~RLeInv(pulled.amt, 1000) THEN [pulled EXCEPT !.failed = TRUE]
    ELSE ConsolidateBlends(pulled, ti, blend_fill, keys, j + 1, sources)

\* lines 450-472: the blends of one consolidation tank, from the j-th key on
ConsolidateBlends(cs, ti, blend_fill, keys, j, sources) ==
    IF j > Len(keys) THEN cs
    ELSE BlendPulled(
            ConsolidatePull([cs EXCEPT !.amt = blend_fill[keys[j]]],
                            SourceCandidates(cs.wt, sources, keys[j]),
                            1, ti, keys[j]),
            ti, blend_fill, keys, j, sources)

\* lines 448, 563: the amount of every blend that goes into a tank
BlendFill(pct, fill_amount) ==
    [b \in DOMAIN pct |-> RDiv(RMul(fill_amount, pct[b]), R(100))]

\* lines 473-475
TankSet(done, ti, blend_fill) ==
    [done EXCEPT !.wt[ti] = [WithBreakdown(@, blend_fill) EXCEPT
                                !.is_empty = FALSE,
                                !.current_volume = DictSum(blend_fill)]]

RECURSIVE ConsolidateEntries(_, _, _, _, _, _)
RECURSIVE EntryDone(_, _, _, _, _, _, _)

EntryDone(done, entries, e, keys, pct, sources, blend_fill) ==
    IF done.failed THEN done
    ELSE ConsolidateEntries(TankSet(done, entries[e].tank, blend_fill),
                            entries, e + 1, keys, pct, sources)

EntryFilled(cs, entries, e, keys, pct, sources, blend_fill) ==
    EntryDone(ConsolidateBlends(cs, entries[e].tank, blend_fill, keys, 1, sources),
              entries, e, keys, pct, sources, blend_fill)

\* lines 445-475: the consolidation tanks, from the e-th entry on
ConsolidateEntries(cs, entries, e, keys, pct, sources) ==
    IF e > Len(entries) \/ cs.failed THEN cs
    ELSE EntryFilled(cs, entries, e, keys, pct, sources,
                     BlendFill(pct, entries[e].amount))

\* lines 477-481: every tank that is not a consolidation tank is emptied
EmptyTheOthers(wt, entries) ==
    [i \in 1..Len(wt) |->
        IF \E e \in 1..Len(entries) : wt[entries[e].tank] = wt[i]
        THEN wt[i]
        ELSE [WithBreakdown(wt[i], EmptyDict) EXCEPT
                !.is_empty = TRUE, !.current_volume = R0]]

NoConsolidation(wt) ==
    [wt |-> wt, plan |-> <<>>, within |-> TRUE, amt |-> R0, failed |-> FALSE]

\* lines 441-481
Consolidated(wt0, entries, performed, keys, pct) ==
    IF performed /\ entries # <<>>
    THEN ConsolidateEntries(NoConsolidation(wt0), entries, 1, keys, pct,
                            Positions(wt0, IsSourceTank))
    ELSE NoConsolidation(wt0)

\* lines 402-403: the empty tanks, largest first
SortedEmpties(wt) == SortDesc(Positions(wt, IsEmptyTank), LAMBDA i : wt[i].capacity)

\* the state after lines 384-481, given the results of the steps
ConsolidateEnds(totals, total, pct, performed, entries, cs) ==
    /\ blend_totals' = totals
    /\ total_wine' = total
    /\ blend_percentages' = pct
    /\ performed_consolidation' = performed
    /\ within_capacity' = cs.within
    /\ consolidation_transfer_plan' = cs.plan
    /\ IF cs.failed
       THEN /\ pc' = "done"
            /\ response' = [status |-> 400,
                            message |-> "Not enough blend to consolidate.",
                            has_plan |-> FALSE, transfer_plan |-> <<>>]
            /\ working_tanks' = cs.wt
       ELSE /\ pc' = "consolidated"
            /\ response' = response
            /\ working_tanks' = IF performed /\ entries # <<>>
                                THEN EmptyTheOthers(cs.wt, entries)
                                ELSE cs.wt

ConsolidateChosen(totals, total, pct, wt0, performed, entries) ==
    ConsolidateEnds(totals, total, pct, performed, entries,
                    Consolidated(wt0, entries, performed, totals.keys, pct))

ConsolidateSorted(totals, total, wt0, empties) ==
    ConsolidateChosen(totals, total, Percentages(totals, total), wt0,
                      PerformedConsolidation(wt0, empties, total),
                      ConsolidationTanks(wt0, empties, total))

ConsolidateTotals(totals, wt0) ==
    ConsolidateSorted(totals, DictSum(totals.tot), wt0, SortedEmpties(wt0))

\* lines 384-481 as one step
Consolidate ==
    /\ pc = "start"
    /\ ConsolidateTotals(BlendTotals(tanks, 1, [keys |-> <<>>, tot |-> EmptyDict]),
                         initialize_blend_breakdown(tanks))
    /\ UNCHANGED <<tanks, tanks_before, full_tanks, empty_tanks, attempt, best_plan,
                   best_num_tanks, best_num_transfers, final_tanks, accepted, call>>

\* lines 486-500: the lists of the search and the check that ends the request
CheckBlending ==
    /\ pc = "consolidated"
    /\ full_tanks' = Filter(working_tanks, IsSourceTank)
    /\ empty_tanks' = Filter(working_tanks, IsEmptyTank)
    /\ IF blending_is_not_needed(working_tanks, blend_percentages, Tolerance)
       THEN /\ pc' = "done"
            /\ response' = [status |-> 200,
                            message |-> "Consolidation completed; no further blending needed.",
                            has_plan |-> TRUE,
                            transfer_plan |-> consolidation_transfer_plan]
            /\ final_tanks' = working_tanks
       ELSE /\ pc' = "search"
            /\ UNCHANGED <<response, final_tanks>>
    /\ UNCHANGED <<tanks, tanks_before, blend_totals, total_wine, blend_percentages, working_tanks,
                   consolidation_transfer_plan, performed_consolidation, attempt,
                   best_plan, best_num_tanks, best_num_transfers,
                   within_capacity, accepted, call>>

\* ------------------------------------------------------------------------
\* generate_blend_plan: the search
\* ------------------------------------------------------------------------
Attempts == 100

\* lines 592-601: one move of a trial recorded.
\* ts = [tt, plan, blend_left, wine_left, to_transfer, within]
Drawn(ts, src, ei, blend, move, moved) ==
    [ts EXCEPT !.tt = moved,
               !.plan = Append(@, [from |-> ts.tt[src].name,
                                   to |-> ts.tt[ei].name,
                                   blend |-> blend,
                                   volume |-> move]),
               !.blend_left[blend] = RSub(@, move),
               !.wine_left = RSub(@, move),
               !.to_transfer = RSub(@, move),
               !.within = @ /\ WithinCapacity(moved)]

RECURSIVE DrawFromSources(_, _, _, _, _)
RECURSIVE DrawMove(_, _, _, _, _, _)

\* lines 588-601
DrawMove(ts, srcs, k, ei, blend, move) ==
    IF RLe(move, R0) THEN DrawFromSources(ts, srcs, k + 1, ei, blend)
    ELSE DrawFromSources(Drawn(ts, srcs[k], ei, blend, move,
                               transfer_wine(ts.tt, srcs[k], ei, move)),
                         srcs, k + 1, ei, blend)

\* lines 585-601: draw to_transfer of one blend from the sorted sources
DrawFromSources(ts, srcs, k, ei, blend) ==
    IF k > Len(srcs) \/ RLe(ts.to_transfer, R0) THEN ts
    ELSE DrawMove(ts, srcs, k, ei, blend,
                  RMin(ts.tt[srcs[k]].current_volume, ts.to_transfer))

\* lines 580-584: the tanks that hold the blend, fullest first
TrialSources(tt, blend) ==
    SortDesc(Positions(tt, LAMBDA t : /\ RLt(R0, t.current_volume)
                                      /\ RLt(R0, DictGet(Breakdown(t), blend))),
             LAMBDA i : tt[i].current_volume)

\* lines 578-601: the blends of one destination tank, from the j-th key on
RECURSIVE DrawBlends(_, _, _, _, _)
DrawBlends(ts, ei, blend_fill, keys, j) ==
    IF j > Len(keys) THEN ts
    ELSE DrawBlends(
            DrawFromSources([ts EXCEPT !.to_transfer = blend_fill[keys[j]]],
                            TrialSources(ts.tt, keys[j]), 1, ei, keys[j]),
            ei, blend_fill, keys, j + 1)

RMinOf(S) == CHOOSE m \in S : \A o \in S : RLe(m, o)

\* lines 548-554: some blend falls short of its share of the fill
Limiting(blend_left, pct, first_fill) ==
    \E b \in DOMAIN pct : RLt(blend_left[b], RDiv(RMul(first_fill, pct[b]), R(100)))

\* lines 557-562: the fill the scarcest blend allows
LimitedFill(blend_left, pct, first_fill) ==
    IF {b \in DOMAIN pct : RLt(R0, pct[b])} # {}
    THEN RMin(first_fill,
              RMinOf({RDiv(blend_left[b], RDiv(pct[b], R(100)))
                        : b \in {x \in DOMAIN pct : RLt(R0, pct[x])}}))
    ELSE first_fill

\* lines 568-575: the destination is looked up in the trial's list, and a copy
\* is appended when it is not there
DrawInto(ts, etank, found, blend_fill, keys) ==
    IF found = 0
    THEN DrawBlends([ts EXCEPT !.tt = Append(@, WithBreakdown(etank, EmptyDict))],
                    Len(ts.tt) + 1, blend_fill, keys, 1)
    ELSE DrawBlends(ts, found, blend_fill, keys, 1)

RECURSIVE FillEmpties(_, _, _, _, _)
RECURSIVE FillWith(_, _, _, _, _, _, _)

\* lines 564-601
FillWith(ts, shuffled, k, keys, pct, limiting, fill_amount) ==
    IF limiting /\ RLe(fill_amount, R0)
    THEN FillEmpties(ts, shuffled, k + 1, keys, pct)
    ELSE FillEmpties(DrawInto(ts, shuffled[k],
                              get_tank_by_name(ts.tt, shuffled[k].name),
                              BlendFill(pct, fill_amount), keys),
                     shuffled, k + 1, keys, pct)

FillLimited(ts, shuffled, k, keys, pct, first_fill, limiting) ==
    FillWith(ts, shuffled, k, keys, pct, limiting,
             IF limiting THEN LimitedFill(ts.blend_left, pct, first_fill)
             ELSE first_fill)

FillFirst(ts, shuffled, k, keys, pct, first_fill) ==
    FillLimited(ts, shuffled, k, keys, pct, first_fill,
                Limiting(ts.blend_left, pct, first_fill))

\* lines 542-546
FillTank(ts, shuffled, k, keys, pct, tank_capacity) ==
    IF RLe(tank_capacity, R0) THEN FillEmpties(ts, shuffled, k + 1, keys, pct)
    ELSE FillFirst(ts, shuffled, k, keys, pct, RMin(tank_capacity, ts.wine_left))

\* lines 538-601: the destination tanks in shuffled order, from the k-th on
FillEmpties(ts, shuffled, k, keys, pct) ==
    IF k > Len(shuffled) \/ RLe(ts.wine_left, R0) THEN ts
    ELSE FillTank(ts, shuffled, k, keys, pct,
                  RSub(shuffled[k].capacity, shuffled[k].current_volume))

\* lines 603-608
EmptySources(tt, fulls) ==
    [i \in 1..Len(tt) |->
        IF \E f \in 1..Len(fulls) : fulls[f].name = tt[i].name
        THEN [WithBreakdown(tt[i], EmptyDict) EXCEPT !.current_volume = R0]
        ELSE tt[i]]

LeInf(n, b) == b.inf \/ n <= b.n
LtInf(n, b) == b.inf \/ n < b.n

\* select_best with the comparison of line 613 turned round
select_best_more_tanks(best, ok, num_tanks, plan, tt) ==
    IF /\ ok
       /\ ~LtInf(num_tanks, best.num_tanks)
       /\ (LtInf(num_tanks, best.num_tanks) \/ LtInf(Len(plan), best.num_transfers))
    THEN [plan |-> [none |-> FALSE, ops |-> plan],
          num_tanks |-> Finite(num_tanks),
          num_transfers |-> Finite(Len(plan)),
          tanks |-> tt]
    ELSE best

\* lines 612-617: best = [plan, num_tanks, num_transfers, tanks]
select_best(best, ok, num_tanks, plan, tt) ==
    IF /\ ok
       /\ LeInf(num_tanks, best.num_tanks)
       /\ (LtInf(num_tanks, best.num_tanks) \/ LtInf(Len(plan), best.num_transfers))
    THEN [plan |-> [none |-> FALSE, ops |-> plan],
          num_tanks |-> Finite(num_tanks),
          num_transfers |-> Finite(Len(plan)),
          tanks |-> tt]
    ELSE best

RECURSIVE ApplyMoves(_, _, _)

\* line 535: best_plan.append(move)
MoveApplied(st, moves, k, r) ==
    IF r.error # "none"
    THEN [st EXCEPT !.tanks = r.tanks, !.error = r.error]
    ELSE IF st.best_plan.none
         THEN [st EXCEPT !.tanks = r.tanks, !.error = "AttributeError"]
         ELSE ApplyMoves([st EXCEPT !.tanks = r.tanks,
                                    !.best_plan.ops = Append(@, moves[k])],
                         moves, k + 1)

\* lines 533-535: the moves of the cross-fill, applied to the global list and
\* appended to best_plan.  st = [tanks, best_plan, error]
ApplyMoves(st, moves, k) ==
    IF k > Len(moves) \/ st.error # "none" THEN st
    ELSE MoveApplied(st, moves, k, apply_transfer(st.tanks, moves[k]))

CrossFillPossible == Len(full_tanks) >= 2 /\ Len(empty_tanks) >= 1

\* random.sample(full_tanks, 2)
Samples ==
    IF CrossFillPossible
    THEN {p \in (1..Len(full_tanks)) \X (1..Len(full_tanks)) : p[1] # p[2]}
    ELSE {<<0, 0>>}

\* lines 529-535 for the sampled pair
CrossFill(pair) ==
    IF CrossFillPossible
    THEN ApplyMoves([tanks |-> tanks, best_plan |-> best_plan, error |-> "none"],
                    double_swap(full_tanks[pair[1]], full_tanks[pair[2]],
                                empty_tanks[1]),
                    1)
    ELSE [tanks |-> tanks, best_plan |-> best_plan, error |-> "none"]

\* lines 611-612: [plan, within, tanks, num_tanks, ok]
Judged(filled, emptied, tanks_with_wine) ==
    [plan |-> filled.plan,
     within |-> filled.within,
     tanks |-> emptied,
     num_tanks |-> Len(tanks_with_wine),
     ok |-> blending_is_not_needed(tanks_with_wine, blend_percentages, Tolerance)]

Emptied(filled, emptied) == Judged(filled, emptied, Filter(emptied, HasWine))

Filled(filled) == Emptied(filled, EmptySources(filled.tt, full_tanks))

\* lines 513-611 for one shuffle of the empty tanks
TrialRun(order) ==
    Filled(FillEmpties([tt |-> initialize_blend_breakdown(full_tanks \o empty_tanks),
                        plan |-> consolidation_transfer_plan,
                        blend_left |-> blend_totals.tot,
                        wine_left |-> total_wine,
                        to_transfer |-> R0,
                        within |-> TRUE],
                       [i \in 1..Len(empty_tanks) |-> empty_tanks[order[i]]],
                       1, blend_totals.keys, blend_percentages))

\* the exception of the cross-fill ends the request
TrialRaises(swapped) ==
    /\ tanks' = swapped.tanks
    /\ pc' = "done"
    /\ response' = [status |-> 500, message |-> swapped.error,
                    has_plan |-> FALSE, transfer_plan |-> <<>>]
    /\ best_plan' = swapped.best_plan
    /\ within_capacity' = (within_capacity /\ WithinCapacity(swapped.tanks))
    /\ UNCHANGED <<best_num_tanks, best_num_transfers, final_tanks, accepted>>

\* lines 612-617
TrialKeeps(swapped, trial, best) ==
    /\ tanks' = swapped.tanks
    /\ pc' = "search"
    /\ response' = response
    /\ best_plan' = best.plan
    /\ best_num_tanks' = best.num_tanks
    /\ best_num_transfers' = best.num_transfers
    /\ final_tanks' = best.tanks
    /\ within_capacity' = (/\ within_capacity
                           /\ WithinCapacity(swapped.tanks)
                           /\ trial.within)
    /\ accepted' = IF trial.ok
                   THEN accepted \cup {[num_tanks |-> trial.num_tanks,
                                        num_transfers |-> Len(trial.plan),
                                        plan |-> trial.plan]}
                   ELSE accepted

TrialEnds(swapped, trial) ==
    IF swapped.error # "none" THEN TrialRaises(swapped)
    ELSE TrialKeeps(swapped, trial,
                    select_best([plan |-> swapped.best_plan,
                                 num_tanks |-> best_num_tanks,
                                 num_transfers |-> best_num_transfers,
                                 tanks |-> final_tanks],
                                trial.ok, trial.num_tanks, trial.plan, trial.tanks))

\* one pass of the loop of line 511
Trial ==
    /\ pc = "search"
    /\ attempt < Attempts
    /\ attempt' = attempt + 1
    /\ \E order \in Permutations(1..Len(empty_tanks)), pair \in Samples :
            TrialEnds(CrossFill(pair), TrialRun(order))
    /\ UNCHANGED <<tanks_before, blend_totals, total_wine, blend_percentages,
                   working_tanks, consolidation_transfer_plan,
                   performed_consolidation, full_tanks, empty_tanks, call>>

\* lines 630-641
Finish ==
    /\ pc = "search"
    /\ attempt = Attempts
    /\ pc' = "done"
    /\ response' =
        IF best_plan.none \/ best_plan.ops = <<>>
        THEN [status |-> 400,
              message |-> "Blending not possible. Please provide more empty tanks.",
              has_plan |-> FALSE, transfer_plan |-> <<>>]
        ELSE [status |-> 200, message |-> "", has_plan |-> TRUE,
              transfer_plan |-> best_plan.ops]
    /\ UNCHANGED <<tanks, tanks_before, blend_totals, total_wine, blend_percentages, working_tanks,
                   consolidation_transfer_plan, performed_consolidation, full_tanks,
                   empty_tanks, attempt, best_plan, best_num_tanks,
                   best_num_transfers, final_tanks, within_capacity, accepted, call>>

Next == Consolidate \/ CheckBlending \/ Trial \/ Finish

Spec == Init /\ [][Next]_vars

\* ------------------------------------------------------------------------
\* Properties of the plan request
\* ------------------------------------------------------------------------
SumVolumes(ts) == DictSum([i \in 1..Len(ts) |-> ts[i].current_volume])

\* the tanks after the operations of a plan were carried out in order, each
\* moving its volume with the donor's mix
RECURSIVE ApplyPlan(_, _, _)
ApplyPlan(ts, plan, k) ==
    IF k > Len(plan) THEN ts
    ELSE ApplyPlan(transfer_wine(ts, get_tank_by_name(ts, plan[k].from),
                                 get_tank_by_name(ts, plan[k].to), plan[k].volume),
                   plan, k + 1)

AfterPlan == ApplyPlan(initialize_blend_breakdown(tanks_before),
                       response.transfer_plan, 1)

\* the global target percentages, from the tanks of the request
TargetOf(ts) ==
    LET totals == BlendTotals(ts, 1, [keys |-> <<>>, tot |-> EmptyDict])
    IN  Percentages(totals, DictSum(totals.tot))

Returned == pc = "done"
BlendingNotPossible == "Blending not possible. Please provide more empty tanks."

\* C1: a plan request leaves the global tank list as it was, whatever branch
\* the planner takes.
C1_GlobalTanksUnchanged == tanks = tanks_before

\* C2: a plan request ends with a plan or a reported failure message, never
\* with an unhandled error, also when a trial performs the cross-fill.
C2_StructuredOutcome == Returned => response.status \in {200, 400}

\* C3: when a plan is returned, carrying out its operations on the initial
\* tanks leaves every tank that holds labelled wine with each target
\* component's share within Tolerance of its global target percentage.
C3_PlanMeetsTarget ==
    (Returned /\ response.has_plan) =>
        \A i \in 1..Len(AfterPlan) :
            LET t == AfterPlan[i]
                target == TargetOf(tanks_before)
            IN  (RLt(R0, t.current_volume) /\ DOMAIN t.blend_breakdown # {}) =>
                    \A b \in DOMAIN target :
                        RLe(RAbs(RSub(RMul(RDiv(DictGet(t.blend_breakdown, b),
                                                t.current_volume), R(100)),
                                      target[b])),
                            Tolerance)

\* C4: when a plan is returned, the total volume of the tanks before planning
\* equals the total of the planner's final working state and the total after
\* carrying out the plan.
C4_VolumeConserved ==
    (Returned /\ response.has_plan) =>
        /\ SumVolumes(final_tanks) = SumVolumes(tanks_before)
        /\ SumVolumes(AfterPlan) = SumVolumes(tanks_before)

\* C5: starting from tanks with 0 <= current_volume <= capacity, no transfer
\* the planner performs leaves a tank below 0 or above its capacity.
C5_TransfersWithinCapacity == WithinCapacity(tanks_before) => within_capacity

\* C6: with no labelled positive-volume wine in a tank that is not flagged
\* empty, the request reports a failure at once: no plan, no consolidation,
\* no trial.
C6_NoVolumeFailsAtOnce ==
    (Returned /\ DOMAIN TargetOf(tanks_before) = {}) =>
        /\ response.status = 400
        /\ ~response.has_plan
        /\ ~performed_consolidation
        /\ attempt = 0

\* C7: when the total wine to blend exceeds the total capacity of the empty
\* tanks, the request reports a failure before any trial runs and returns no
\* plan.
C7_CapacityCheckFails ==
    LET totals == BlendTotals(tanks_before, 1, [keys |-> <<>>, tot |-> EmptyDict])
        empties == Filter(tanks_before, IsEmptyTank)
        capacity == DictSum([i \in 1..Len(empties) |-> empties[i].capacity])
    IN  (Returned /\ RLt(capacity, DictSum(totals.tot))) =>
            /\ response.status = 400
            /\ ~response.has_plan
            /\ attempt = 0

\* C8: a search in which no trial was accepted ends with the report
\* "Blending not possible" and no plan, and a plan returned by the search is
\* the plan of an accepted trial.
C8_NoAcceptedTrialNoPlan ==
    (Returned /\ attempt > 0) =>
        /\ accepted = {} =>
            /\ response.status = 400
            /\ response.message = BlendingNotPossible
            /\ ~response.has_plan
        /\ response.has_plan =>
            \E a \in accepted : a.plan = response.transfer_plan

MaxCallTanks == 2

\* <<blend, current_volume>> of a source tank; labels as a caller may pass them
SourceChoices ==
    { << <<"x">>, R(49) >>, << <<"x">>, Rat(49998, 1000) >>,
      << <<"x">>, Rat(49999, 1000) >>, << <<"X", " ">>, R(50) >>,
      << <<"y">>, R(50) >>, << <<"y">>, R(51) >> }
TargetCapacities == { R(50), R(100) }
RatioChoices ==
    { EmptyDict,
      [b \in { <<"x">> } |-> R(100)],
      [b \in { <<"x">>, <<"y">> } |-> R(50)],
      [b \in { <<"x">>, <<"y">> } |-> IF b = <<"x">> THEN R(49) ELSE R(51)] }

SourceLists ==
    UNION { { [i \in 1..n |-> Tank(NamePool[i], k[i][1], FALSE, k[i][2], R(100))]
                : k \in [1..n -> SourceChoices] } : n \in 0..MaxCallTanks }
TargetLists ==
    UNION { { [i \in 1..n |-> Tank(NamePool[i], <<>>, TRUE, R0, k[i])]
                : k \in [1..n -> TargetCapacities] } : n \in 0..MaxCallTanks }

InitCanMakeBlend ==
    /\ tanks = <<>>
    /\ pc = "none"
    /\ RequestStarts
    /\ call \in { [fn |-> "can_make_blend", phase |-> "ready", results |-> <<>>,
                   target_ratios |-> r, source_tanks |-> st, target_tanks |-> tt]
                    : r \in RatioChoices, st \in SourceLists, tt \in TargetLists }

\* one call; the arguments are what they were when it returns
CallCanMakeBlend ==
    /\ call.fn = "can_make_blend"
    /\ call.phase \in {"ready", "once"}
    /\ call' = [call EXCEPT
                    !.phase = IF @ = "ready" THEN "once" ELSE "twice",
                    !.results = Append(@, can_make_blend(call.target_ratios,
                                                         call.source_tanks,
                                                         call.target_tanks))]
    /\ UNCHANGED plan_vars

NextCanMakeBlend == CallCanMakeBlend

SpecCanMakeBlend == InitCanMakeBlend /\ [][NextCanMakeBlend]_vars

CallRequired ==
    DictSum([i \in 1..Len(call.target_tanks) |-> call.target_tanks[i].capacity])
CallAvailable == SumVolumes(call.source_tanks)
CallAvailableOf(blend) ==
    SumVolumes(Filter(call.source_tanks,
                      LAMBDA t : normalize_blend(t.blend) = blend))
\* the component is short by more than the epsilon 1e-3
CallShortOf(blend) ==
    RLt(CallAvailableOf(blend),
        RSub(RDiv(RMul(call.target_ratios[blend], CallRequired), R(100)),
             Rat(1, 1000)))

\* C10: can_make_blend is false when the sources hold less than the targets'
\* capacity, else false when some component of target_ratios is short by more
\* than 1e-3, else true; every call on the same arguments gives that boolean.
C10_CanMakeBlendResult ==
    call.fn = "can_make_blend" =>
        \A i \in 1..Len(call.results) :
            call.results[i] =
                (/\ ~RLt(CallAvailable, CallRequired)
                 /\ \A blend \in DOMAIN call.target_ratios : ~CallShortOf(blend))

\* two calls that pass although a component is short by no more than 1e-3
C10_Witness ==
    /\ call.fn = "can_make_blend"
    /\ call.phase = "twice"
    /\ call.results = <<TRUE, TRUE>>
    /\ \E blend \in DOMAIN call.target_ratios :
            RLt(CallAvailableOf(blend),
                RDiv(RMul(call.target_ratios[blend], CallRequired), R(100)))

\* ------------------------------------------------------------------------
\* Direct calls of transfer_wine
\* ------------------------------------------------------------------------
MaxTransfers == 2

\* <<blend label, current_volume, blend_breakdown>> of a tank of a working
\* copy: a blend of two components, a single component, a labelled tank whose
\* breakdown is empty, a tank without wine, a tank that is partly filled
TransferKinds ==
    { << <<"x">>, R(100), [b \in { <<"x">>, <<"y">> } |->
                                IF b = <<"x">> THEN R(60) ELSE R(40)] >>,
      << <<"x">>, R(100), [b \in { <<"x">> } |-> R(100)] >>,
      << <<"x">>, R(100), EmptyDict >>,
      << <<>>, R0, EmptyDict >>,
      << <<"y">>, R(30), [b \in { <<"y">> } |-> R(30)] >> }

\* the volumes a caller asks for; the last leaves less than 1e-3 of each of
\* two components behind
TransferVolumes == { R(25), R(30), R(100), Rat(99999, 1000) }

TransferLists ==
    { [i \in 1..2 |-> WithBreakdown(Tank(NamePool[i], k[i][1], FALSE, k[i][2], R(200)),
                                    k[i][3])]
        : k \in [1..2 -> TransferKinds] }

\* lines 592: the trial looks its destination up by name, so that the donor
\* and the recipient are one dict when two tanks of the list share a name
InitTransferWine ==
    /\ tanks = <<>>
    /\ pc = "none"
    /\ RequestStarts
    /\ call \in { [fn |-> "transfer_wine", count |-> 0, ts |-> ts, before |-> ts,
                   donor |-> di, recipient |-> ri, volume |-> R0]
                    : ts \in TransferLists, di \in 1..2, ri \in 1..2 }

\* one call with 0 < volume <= donor's current_volume
CallTransferWine ==
    /\ call.fn = "transfer_wine"
    /\ call.count < MaxTransfers
    /\ \E volume \in TransferVolumes :
        /\ RLt(R0, volume)
        /\ RLe(volume, call.ts[call.donor].current_volume)
        /\ call' = [call EXCEPT
                        !.count = @ + 1,
                        !.before = call.ts,
                        !.volume = volume,
                        !.ts = transfer_wine(call.ts, call.donor, call.recipient,
                                             volume)]
    /\ UNCHANGED plan_vars

NextTransferWine == CallTransferWine

SpecTransferWine == InitTransferWine /\ [][NextTransferWine]_vars

\* the composition of a tank sums to its current_volume
Consistent(t) == DictSum(Breakdown(t)) = t.current_volume

\* what the call is to move of every component: the donor's composition, or
\* its whole volume under its label when the composition is empty, scaled by
\* volume / donor_volume
MovedOf(donor, volume) ==
    IF DOMAIN Breakdown(donor) # {}
    THEN [c \in DOMAIN Breakdown(donor) |->
            RDiv(RMul(Breakdown(donor)[c], volume), donor.current_volume)]
    ELSE [c \in {donor.blend} |-> volume]

HeldOf(donor) ==
    IF DOMAIN Breakdown(donor) # {} THEN Breakdown(donor)
    ELSE [c \in {donor.blend} |-> donor.current_volume]

\* the donor keeps what it held less what moved; a remainder of at most 1e-3
\* is dropped from its composition
DonorKeeps(before, after, moved) ==
    \A c \in DOMAIN moved :
        IF RLeInv(RSub(HeldOf(before)[c], moved[c]), 1000)
        THEN c \notin DOMAIN Breakdown(after)
        ELSE /\ c \in DOMAIN Breakdown(after)
             /\ Breakdown(after)[c] = RSub(HeldOf(before)[c], moved[c])

RecipientGains(before, after, moved) ==
    /\ DOMAIN Breakdown(after) = DOMAIN Breakdown(before) \cup DOMAIN moved
    /\ \A c \in DOMAIN Breakdown(after) :
            Breakdown(after)[c] =
                RAdd(DictGet(Breakdown(before), c), DictGet(moved, c))

\* C11: a call of transfer_wine with 0 < volume <= donor's current_volume, on
\* tanks whose compositions sum to their volumes (the donor's may be empty),
\* lowers the donor's current_volume by volume and raises the recipient's by
\* volume; every component c moves donor[c] * volume / donor_volume (the whole
\* volume under the donor's label when its composition is empty): the
\* recipient gains it, the donor keeps the rest unless the rest is at most
\* 1e-3, and the recipient's composition still sums to its current_volume.
C11_TransferMovesVolume ==
    (/\ call.fn = "transfer_wine"
     /\ call.count > 0
     /\ Consistent(call.before[call.recipient])
     /\ \/ Consistent(call.before[call.donor])
        \/ DOMAIN Breakdown(call.before[call.donor]) = {})
    =>
    /\ call.ts[call.donor].current_volume =
            RSub(call.before[call.donor].current_volume, call.volume)
    /\ call.ts[call.recipient].current_volume =
            RAdd(call.before[call.recipient].current_volume, call.volume)
    /\ DonorKeeps(call.before[call.donor], call.ts[call.donor],
                  MovedOf(call.before[call.donor], call.volume))
    /\ RecipientGains(call.before[call.recipient], call.ts[call.recipient],
                      MovedOf(call.before[call.donor], call.volume))
    /\ Consistent(call.ts[call.recipient])

\* the same statement for calls whose donor and recipient are two tanks
C11_DistinctTanksMoveVolume ==
    call.fn = "transfer_wine" /\ call.donor # call.recipient
        => C11_TransferMovesVolume

\* ------------------------------------------------------------------------
\* Direct calls of blending_is_not_needed
\* ------------------------------------------------------------------------
MaxCheckedTanks == 2

\* <<current_volume, blend_breakdown>> of a tank of a trial: on target for
\* 50/50, off target by less and by more than the tolerance, a single
\* component, a component that no target names, a tank without wine
CheckedKinds ==
    { << R(100), [b \in { <<"x">>, <<"y">> } |-> R(50)] >>,
      << R(100), [b \in { <<"x">>, <<"y">> } |->
                    IF b = <<"x">> THEN R(51) ELSE R(49)] >>,
      << R(100), [b \in { <<"x">>, <<"y">> } |->
                    IF b = <<"x">> THEN R(53) ELSE R(47)] >>,
      << R(100), [b \in { <<"x">> } |-> R(100)] >>,
      << R(100), [b \in { <<"x">>, <<"z">> } |->
                    IF b = <<"x">> THEN R(97) ELSE R(3)] >>,
      << R0, EmptyDict >> }

CheckedTargets ==
    { [b \in { <<"x">> } |-> R(100)],
      [b \in { <<"x">>, <<"y">> } |-> R(50)],
      EmptyDict }

CheckedLists ==
    UNION { { [i \in 1..n |-> WithBreakdown(Tank(NamePool[i], <<>>, FALSE, k[i][1],
                                                 R(100)), k[i][2])]
                : k \in [1..n -> CheckedKinds] } : n \in 0..MaxCheckedTanks }

InitBlendingCheck ==
    /\ tanks = <<>>
    /\ pc = "none"
    /\ RequestStarts
    /\ call \in { [fn |-> "blending_is_not_needed", phase |-> "ready",
                   results |-> <<>>, working_tanks |-> wt,
                   global_blend_percentages |-> pct]
                    : wt \in CheckedLists, pct \in CheckedTargets }

\* one call with the tolerance of lines 491 and 612
CallBlendingCheck ==
    /\ call.fn = "blending_is_not_needed"
    /\ call.phase \in {"ready", "once"}
    /\ call' = [call EXCEPT
                    !.phase = IF @ = "ready" THEN "once" ELSE "twice",
                    !.results = Append(@, blending_is_not_needed(
                                            call.working_tanks,
                                            call.global_blend_percentages,
                                            Tolerance))]
    /\ UNCHANGED plan_vars

NextBlendingCheck == CallBlendingCheck

SpecBlendingCheck == InitBlendingCheck /\ [][NextBlendingCheck]_vars

\* the share of a component in a tank, in percent of the tank's volume
ShareOf(t, c) == RDiv(RMul(DictGet(Breakdown(t), c), R(100)), t.current_volume)

\* a tank passes: every target component is within tolerance of its target,
\* and no other component has a share above the tolerance
Passes(t, target, tolerance) ==
    /\ \A c \in DOMAIN target :
            RLe(RAbs(RSub(ShareOf(t, c), target[c])), tolerance)
    /\ \A c \in DOMAIN Breakdown(t) \ DOMAIN target :
            RLe(ShareOf(t, c), tolerance)

AllHoldingPass ==
    \A i \in 1..Len(call.working_tanks) :
        RLt(R0, call.working_tanks[i].current_volume) =>
            Passes(call.working_tanks[i], call.global_blend_percentages, Tolerance)

\* C12: blending_is_not_needed returns true only if every tank that holds
\* volume passes, whatever the number of tanks that hold wine.
C12_AcceptsOnlyPassingTanks ==
    call.fn = "blending_is_not_needed" =>
        \A i \in 1..Len(call.results) : call.results[i] => AllHoldingPass

\* the same statement for lists in which the tanks holding wine are not
\* exactly one
C12_SeveralTanksAcceptOnlyPassing ==
    (/\ call.fn = "blending_is_not_needed"
     /\ Len(Filter(call.working_tanks, HasWine)) # 1)
        => C12_AcceptsOnlyPassingTanks

\* ------------------------------------------------------------------------
\* The tank store: add_tank, edit_tank, delete_tank, upload_csv
\* ------------------------------------------------------------------------
MaxStoreTanks == 2
MaxRows == 2

normalize_tank_name(name) == IF name # <<>> THEN Strip(Lower(name)) ELSE <<>>

\* names as a client may send them
StoreNames == { <<"A">>, <<"a">>, <<"A", " ">>, <<"B">> }

\* request bodies of add_tank (every field given) and of edit_tank (any
\* field may be left out)
AddBodies ==
    { [blend |-> <<"X", " ">>, is_empty |-> FALSE,
       current_volume |-> R(100), capacity |-> R(100)],
      [blend |-> <<"y">>, is_empty |-> FALSE,
       current_volume |-> R(100), capacity |-> R(100)],
      [blend |-> <<>>, is_empty |-> TRUE,
       current_volume |-> R0, capacity |-> R(50)] }
EditBodies == AddBodies \cup { [is_empty |-> TRUE] }

\* a cell that pandas read, or a missing one
Cell(v) == [nan |-> FALSE, v |-> v]
NaN == [nan |-> TRUE, v |-> <<>>]
Yes == <<"Y", "e", "s">>
No == <<"n", "o">>

\* rows of an uploaded file: the cells Tank Name, Blend Number, Is Empty,
\* Current Volume (gal), Capacity (gal)
RowCells ==
    { [blend |-> Cell(<<"X", " ">>), is_empty |-> No,
       current_volume |-> Cell(R(100)), capacity |-> R(100)],
      [blend |-> Cell(<<"y">>), is_empty |-> No,
       current_volume |-> Cell(R(100)), capacity |-> R(100)],
      [blend |-> NaN, is_empty |-> Yes, current_volume |-> NaN,
       capacity |-> R(50)] }
Rows == { [name |-> n, cells |-> c] : n \in StoreNames, c \in RowCells }
Files == UNION { [1..n -> Rows] : n \in 0..MaxRows }

\* data.get(key, default)
FieldOr(data, key, default) == IF key \in DOMAIN data THEN data[key] ELSE default

\* position of the first tank whose normalized name is norm_name, or 0
FirstNamed(ts, norm_name) ==
    IF \E i \in 1..Len(ts) : normalize_tank_name(ts[i].name) = norm_name
    THEN CHOOSE i \in 1..Len(ts) :
            /\ normalize_tank_name(ts[i].name) = norm_name
            /\ \A j \in 1..(i - 1) : normalize_tank_name(ts[j].name) # norm_name
    ELSE 0

\* lines 272-278: the tank made from a row
RowTank(row) ==
    Tank(Strip(row.name),
         IF row.cells.blend.nan THEN <<>> ELSE normalize_blend(row.cells.blend.v),
         Lower(row.cells.is_empty) \in { <<"y", "e", "s">>, <<"t", "r", "u", "e">>,
                                         <<"1">> },
         IF row.cells.current_volume.nan THEN R0 ELSE row.cells.current_volume.v,
         row.cells.capacity)

\* the locals of a plan request stay as they are
NoRequest ==
    UNCHANGED <<tanks_before, pc, blend_totals, total_wine, blend_percentages,
                working_tanks, consolidation_transfer_plan,
                performed_consolidation, full_tanks, empty_tanks, attempt,
                best_plan, best_num_tanks, best_num_transfers, response,
                final_tanks, within_capacity, accepted>>

InitStore ==
    /\ tanks = <<>>
    /\ pc = "none"
    /\ RequestStarts
    /\ call = NoCall

add_tank ==
    /\ Len(tanks) < MaxStoreTanks
    /\ \E name \in StoreNames, data \in AddBodies :
        IF \E i \in 1..Len(tanks) :
                normalize_tank_name(tanks[i].name) = normalize_tank_name(name)
        THEN /\ tanks' = tanks
             /\ call' = [fn |-> "add_tank", status |-> 400, given |-> <<name>>]
        ELSE /\ tanks' = Append(tanks, Tank(name, normalize_blend(data.blend),
                                            data.is_empty, data.current_volume,
                                            data.capacity))
             /\ call' = [fn |-> "add_tank", status |-> 201, given |-> <<name>>]
    /\ NoRequest

EditedTank(tank, data) ==
    Tank(tank.name,
         normalize_blend(FieldOr(data, "blend", tank.blend)),
         FieldOr(data, "is_empty", tank.is_empty),
         FieldOr(data, "current_volume", tank.current_volume),
         FieldOr(data, "capacity", tank.capacity))

EditAt(found, tank_name, data) ==
    IF found = 0
    THEN /\ tanks' = tanks
         /\ call' = [fn |-> "edit_tank", status |-> 404, given |-> <<tank_name>>]
    ELSE /\ tanks' = [tanks EXCEPT ![found] = EditedTank(@, data)]
         /\ call' = [fn |-> "edit_tank", status |-> 200, given |-> <<tank_name>>]

edit_tank ==
    /\ \E tank_name \in StoreNames, data \in EditBodies :
            EditAt(FirstNamed(tanks, normalize_tank_name(tank_name)), tank_name, data)
    /\ NoRequest

DeleteAt(found, tank_name) ==
    IF found = 0
    THEN /\ tanks' = tanks
         /\ call' = [fn |-> "delete_tank", status |-> 404, given |-> <<tank_name>>]
    ELSE /\ tanks' = [i \in 1..(Len(tanks) - 1) |->
                        IF i < found THEN tanks[i] ELSE tanks[i + 1]]
         /\ call' = [fn |-> "delete_tank", status |-> 200, given |-> <<tank_name>>]

delete_tank ==
    /\ \E tank_name \in StoreNames :
            DeleteAt(FirstNamed(tanks, normalize_tank_name(tank_name)), tank_name)
    /\ NoRequest

\* a file that pandas reads and that has the expected columns
upload_csv ==
    /\ \E file \in Files :
        /\ tanks' = [i \in 1..Len(file) |-> RowTank(file[i])]
        /\ call' = [fn |-> "upload_csv", status |-> 200,
                    given |-> [i \in 1..Len(file) |-> file[i].name]]
    /\ NoRequest

NextStore == add_tank \/ edit_tank \/ delete_tank \/ upload_csv

SpecStore == InitStore /\ [][NextStore]_vars

\* no two stored tanks have the same lowercased, trimmed name
NamesUnique ==
    \A i, j \in 1..Len(tanks) :
        i # j => normalize_tank_name(tanks[i].name) # normalize_tank_name(tanks[j].name)

\* a tank that was just stored has the name it was given, up to the
\* whitespace around it
StoredAsGiven ==
    /\ (call.fn = "add_tank" /\ call.status = 201) =>
            Strip(tanks[Len(tanks)].name) = Strip(call.given[1])
    /\ call.fn = "upload_csv" =>
            /\ Len(tanks) = Len(call.given)
            /\ \A i \in 1..Len(tanks) : Strip(tanks[i].name) = Strip(call.given[i])

\* C13: after any sequence of add, edit, delete and upload operations no two
\* stored tanks have the same normalized name, and a tank is stored with the
\* casing it was given.
C13_NamesUniqueAsGiven == NamesUnique /\ StoredAsGiven

\* the casing half of C13 alone
C13_CasingKept == StoredAsGiven

\* ------------------------------------------------------------------------
\* Direct calls of double_swap
\* ------------------------------------------------------------------------
\* <<blend label, current_volume, blend_breakdown>> of a tank of full_tanks
\* after initialize_blend_breakdown: tanks of one and of two components, and
\* a tank that holds wine without a label, whose breakdown is empty
SwapKinds ==
    { << <<"x">>, R(100), [b \in { <<"x">> } |-> R(100)] >>,
      << <<"y">>, R(30), [b \in { <<"y">> } |-> R(30)] >>,
      << <<"x">>, R(100), [b \in { <<"x">>, <<"y">> } |->
                                IF b = <<"x">> THEN R(60) ELSE R(40)] >>,
      << <<"y">>, R(3), [b \in { <<"x">>, <<"y">> } |->
                                IF b = <<"x">> THEN R(1) ELSE R(2)] >>,
      << <<>>, R(100), EmptyDict >> }

\* <<is_empty, current_volume, capacity>> of the tank of empty_tanks
SwapEmpties == { <<TRUE, R0, R(50)>>, <<TRUE, R0, R(200)>>, <<FALSE, R0, R(200)>> }

InitDoubleSwap ==
    /\ tanks = <<>>
    /\ pc = "none"
    /\ RequestStarts
    /\ call \in { [fn |-> "double_swap", phase |-> "ready", moves |-> <<>>,
                   tank_a |-> WithBreakdown(Tank(NamePool[1], a[1], FALSE, a[2],
                                                 R(100)), a[3]),
                   tank_b |-> WithBreakdown(Tank(NamePool[2], b[1], FALSE, b[2],
                                                 R(100)), b[3]),
                   tank_empty |-> WithBreakdown(Tank(NamePool[3], <<>>, e[1], e[2],
                                                     e[3]), EmptyDict),
                   before |-> <<a, b, e>>]
                    : a \in SwapKinds, b \in SwapKinds, e \in SwapEmpties }

\* one call; double_swap assigns to none of its arguments
CallDoubleSwap ==
    /\ call.fn = "double_swap"
    /\ call.phase = "ready"
    /\ call' = [call EXCEPT
                    !.phase = "returned",
                    !.moves = double_swap(call.tank_a, call.tank_b, call.tank_empty)]
    /\ UNCHANGED plan_vars

NextDoubleSwap == CallDoubleSwap

SpecDoubleSwap == InitDoubleSwap /\ [][NextDoubleSwap]_vars

MoveIs(move, from, to, volume) ==
    /\ move.from = from.name
    /\ move.to = to.name
    /\ move.volume = volume

ArgumentsAsBefore ==
    /\ <<call.tank_a.blend, call.tank_a.current_volume, call.tank_a.blend_breakdown>>
            = call.before[1]
    /\ <<call.tank_b.blend, call.tank_b.current_volume, call.tank_b.blend_breakdown>>
            = call.before[2]
    /\ <<call.tank_empty.is_empty, call.tank_empty.current_volume,
         call.tank_empty.capacity>> = call.before[3]

\* C14: double_swap on two tanks that hold volume returns three moves: half
\* of A's volume from A to the empty tank, half of B's from B to the empty
\* tank, the rest of A's from A to B; the moves out of A sum to A's volume,
\* the breakdown of every move sums to its volume, and the arguments are as
\* they were.
C14_ThreeMovesOfTheSwap ==
    (call.fn = "double_swap" /\ call.phase = "returned") =>
        /\ Len(call.moves) = 3
        /\ MoveIs(call.moves[1], call.tank_a, call.tank_empty,
                  RDiv(call.tank_a.current_volume, R(2)))
        /\ MoveIs(call.moves[2], call.tank_b, call.tank_empty,
                  RDiv(call.tank_b.current_volume, R(2)))
        /\ MoveIs(call.moves[3], call.tank_a, call.tank_b,
                  RSub(call.tank_a.current_volume,
                       RDiv(call.tank_a.current_volume, R(2))))
        /\ RAdd(call.moves[1].volume, call.moves[3].volume)
                = call.tank_a.current_volume
        /\ \A k \in 1..3 :
                DictSum(call.moves[k].blend_breakdown) = call.moves[k].volume
        /\ ArgumentsAsBefore

\* the same statement for tanks whose blend_breakdown sums to their volume
C14_ConsistentTanksThreeMoves ==
    (/\ call.fn = "double_swap"
     /\ Consistent(call.tank_a)
     /\ Consistent(call.tank_b))
        => C14_ThreeMovesOfTheSwap

\* ------------------------------------------------------------------------
\* Direct calls of consolidate_tanks_any_blend
\* ------------------------------------------------------------------------
MaxGreedyTanks == 3

Mixed == <<"M", "i", "x", "e", "d">>

\* sorted with a key, smallest key first, stable
SortAsc(s, key(_)) ==
    LET n == Len(s)
        rank(i) == 1 + Cardinality({j \in 1..n :
                        \/ RLt(key(s[j]), key(s[i]))
                        \/ (key(s[j]) = key(s[i]) /\ j < i)})
    IN  [p \in 1..n |-> s[CHOOSE i \in 1..n : rank(i) = p]]

SpareOf(t) == RSub(t.capacity, t.current_volume)

\* lines 337-340
IsPartlyFilled(t) == RLt(R0, t.current_volume) /\ RLt(t.current_volume, t.capacity)

VolumeAt(ts, i) == ts[i].current_volume
SpareAt(ts, i) == SpareOf(ts[i])

\* lines 335, 344: positions of the donors, smallest volume first
SortedDonors(ts) == SortAsc(Positions(ts, HasWine), LAMBDA i : VolumeAt(ts, i))

\* the recipients with the least spare room first
SortedRecipientsTightestFirst(ts) ==
    SortAsc(Positions(ts, IsPartlyFilled), LAMBDA i : SpareAt(ts, i))

\* lines 337-340, 345: positions of the recipients, most spare room first
SortedRecipients(ts) ==
    SortDesc(Positions(ts, IsPartlyFilled), LAMBDA i : SpareAt(ts, i))

\* lines 352-356: the place in recipients of the first tank that is not the
\* donor and has room for donor_vol, or 0
FirstFit(ts, di, recipients, donor_vol) ==
    IF \E j \in 1..Len(recipients) :
            /\ ts[recipients[j]].name # ts[di].name
            /\ RLe(donor_vol, SpareOf(ts[recipients[j]]))
    THEN CHOOSE j \in 1..Len(recipients) :
            /\ ts[recipients[j]].name # ts[di].name
            /\ RLe(donor_vol, SpareOf(ts[recipients[j]]))
            /\ \A h \in 1..(j - 1) :
                    \/ ts[recipients[h]].name = ts[di].name
                    \/ ~RLe(donor_vol, SpareOf(ts[recipients[h]]))
    ELSE 0

\* lines 358-362: the recipient's label after the transfer
Relabelled(rec_blend, donor_blend) ==
    IF rec_blend # <<>> /\ rec_blend # donor_blend THEN Mixed ELSE donor_blend

\* lines 358-372.  st = [tanks, steps, turns]; turns records, for every donor
\* in turn, the list before and after and the recipient that was chosen
Poured(st, di, ri, donor_vol, donor_blend, after) ==
    [tanks |-> after,
     steps |-> Append(st.steps,
                      [from |-> st.tanks[di].name, to |-> st.tanks[ri].name,
                       blend |-> IF donor_blend # <<>> THEN donor_blend ELSE Mixed,
                       volume |-> donor_vol, type |-> "consolidation"]),
     turns |-> Append(st.turns, [donor |-> di, volume |-> donor_vol,
                                 before |-> st.tanks, chosen |-> ri,
                                 after |-> after])]

NotPoured(st, di, donor_vol) ==
    [st EXCEPT !.turns = Append(@, [donor |-> di, volume |-> donor_vol,
                                    before |-> st.tanks, chosen |-> 0,
                                    after |-> st.tanks])]

DonorPours(st, di, recipients, donor_vol, donor_blend, fit) ==
    IF fit = 0 THEN NotPoured(st, di, donor_vol)
    ELSE Poured(st, di, recipients[fit], donor_vol, donor_blend,
                transfer_wine([st.tanks EXCEPT ![recipients[fit]].blend =
                                    Relabelled(@, donor_blend)],
                              di, recipients[fit], donor_vol))

\* lines 348-373: one donor
DonorTurn(st, di, recipients) ==
    IF st.tanks[di].current_volume = R0 THEN NotPoured(st, di, R0)
    ELSE DonorPours(st, di, recipients, st.tanks[di].current_volume,
                    st.tanks[di].blend,
                    FirstFit(st.tanks, di, recipients, st.tanks[di].current_volume))

\* line 347: the donors from the k-th on
RECURSIVE DonorsLoop(_, _, _, _)
DonorsLoop(st, donors, recipients, k) ==
    IF k > Len(donors) THEN st
    ELSE DonorsLoop(DonorTurn(st, donors[k], recipients), donors, recipients, k + 1)

consolidate_tanks_any_blend(ts) ==
    DonorsLoop([tanks |-> ts, steps |-> <<>>, turns |-> <<>>],
               SortedDonors(ts), SortedRecipients(ts), 1)

\* <<blend, current_volume, capacity>>: spare room 80, 20 and 30, a full tank
\* and a tank without wine
GreedyKinds ==
    { << <<"x">>, R(20), R(100) >>, << <<"y">>, R(30), R(50) >>,
      << <<"x">>, R(10), R(40) >>, << <<"y">>, R(50), R(50) >>,
      << <<>>, R0, R(100) >> }

GreedyLists ==
    UNION { { [i \in 1..n |-> Tank(NamePool[i], k[i][1], k[i][2] = R0, k[i][2],
                                   k[i][3])]
                : k \in [1..n -> GreedyKinds] } : n \in 0..MaxGreedyTanks }

InitGreedy ==
    /\ tanks = <<>>
    /\ pc = "none"
    /\ RequestStarts
    /\ call \in { [fn |-> "consolidate_tanks_any_blend", phase |-> "ready",
                   given |-> ts, tanks |-> ts, steps |-> <<>>, turns |-> <<>>,
                   donors |-> <<>>, recipients |-> <<>>]
                    : ts \in GreedyLists }

GreedyReturns(done) ==
    call' = [call EXCEPT !.phase = "returned",
                         !.tanks = done.tanks,
                         !.steps = done.steps,
                         !.turns = done.turns,
                         !.donors = SortedDonors(call.given),
                         !.recipients = SortedRecipients(call.given)]

\* one call on a list of tanks
CallGreedy ==
    /\ call.fn = "consolidate_tanks_any_blend"
    /\ call.phase = "ready"
    /\ GreedyReturns(consolidate_tanks_any_blend(call.given))
    /\ UNCHANGED plan_vars

NextGreedy == CallGreedy

SpecGreedy == InitGreedy /\ [][NextGreedy]_vars

GreedyReturned == call.fn = "consolidate_tanks_any_blend" /\ call.phase = "returned"

\* the donors took their turns in the order of call.donors, one turn each
TurnsFollowDonors ==
    /\ Len(call.turns) = Len(call.donors)
    /\ \A k \in 1..Len(call.turns) : call.turns[k].donor = call.donors[k]

DonorsSmallestFirst ==
    \A i, j \in 1..Len(call.donors) :
        i < j => RLe(call.given[call.donors[i]].current_volume,
                     call.given[call.donors[j]].current_volume)

\* a turn that chose a recipient moved the donor's whole volume into it in
\* one transfer; a turn that chose none moved nothing
TurnMovesAllOrNothing(turn) ==
    IF turn.chosen = 0 THEN turn.after = turn.before
    ELSE /\ turn.volume = turn.before[turn.donor].current_volume
         /\ turn.after[turn.donor].current_volume = R0
         /\ turn.after[turn.chosen].current_volume =
                RAdd(turn.before[turn.chosen].current_volume, turn.volume)
         /\ \A i \in 1..Len(turn.after) :
                i \notin {turn.donor, turn.chosen} => turn.after[i] = turn.before[i]

\* the recipients a donor may use at its turn, given the room they must have
Usable(turn, i, roomy(_, _)) ==
    /\ i # turn.donor
    /\ IsPartlyFilled(call.given[i])
    /\ roomy(turn.before[i], turn.volume)

HasRoomForAll(t, volume) == RLe(volume, SpareOf(t))
HasAnyRoom(t, volume) == RLt(R0, SpareOf(t))

\* C15 as amended: the donors, the tanks that hold wine, take one turn each
\* in order of increasing volume at the call; the recipients are the tanks
\* partly filled at the call; a donor moves its whole current volume in one
\* transfer into the recipient that is not itself, has room for that whole
\* volume, and had the most spare room at the call among those (the earliest
\* in the list on a tie); a donor for which no recipient has that room moves
\* nothing.
C15_MostSpareRecipientTakesAll ==
    GreedyReturned =>
        /\ TurnsFollowDonors
        /\ DonorsSmallestFirst
        /\ Len(call.steps) =
                Cardinality({k \in 1..Len(call.turns) : call.turns[k].chosen # 0})
        /\ \A k \in 1..Len(call.turns) :
            /\ TurnMovesAllOrNothing(call.turns[k])
            /\ IF \E i \in 1..Len(call.given) :
                        Usable(call.turns[k], i, HasRoomForAll)
               THEN /\ call.turns[k].chosen # 0
                    /\ Usable(call.turns[k], call.turns[k].chosen, HasRoomForAll)
                    /\ \A i \in 1..Len(call.given) :
                        Usable(call.turns[k], i, HasRoomForAll) =>
                            \/ RLt(SpareOf(call.given[i]),
                                   SpareOf(call.given[call.turns[k].chosen]))
                            \/ /\ SpareOf(call.given[i]) =
                                    SpareOf(call.given[call.turns[k].chosen])
                               /\ call.turns[k].chosen <= i
               ELSE call.turns[k].chosen = 0

\* a call in which a donor moved its volume into a recipient although another
\* recipient with less spare room had room for it too
C15_Witness ==
    /\ GreedyReturned
    /\ \E k \in 1..Len(call.turns) :
        /\ call.turns[k].chosen # 0
        /\ \E i \in 1..Len(call.given) :
            /\ Usable(call.turns[k], i, HasRoomForAll)
            /\ RLt(SpareOf(call.given[i]), SpareOf(call.given[call.turns[k].chosen]))

\* C15 as stated: a donor moves its whole volume into the first recipient, by
\* ascending spare capacity, that is not itself and has any spare room.
C15_TightestRecipientFirst ==
    GreedyReturned =>
        /\ TurnsFollowDonors
        /\ DonorsSmallestFirst
        /\ \A k \in 1..Len(call.turns) :
            IF \E i \in 1..Len(call.given) : Usable(call.turns[k], i, HasAnyRoom)
            THEN /\ call.turns[k].chosen # 0
                 /\ Usable(call.turns[k], call.turns[k].chosen, HasAnyRoom)
                 /\ \A i \in 1..Len(call.given) :
                        Usable(call.turns[k], i, HasAnyRoom) =>
                            RLe(SpareOf(call.turns[k].before[call.turns[k].chosen]),
                                SpareOf(call.turns[k].before[i]))
            ELSE call.turns[k].chosen = 0

====
